---------------------------- MODULE Spec2Model ----------------------------
(***************************************************************************)
(* Model of the UART ring-buffer transport of the GPS module               *)
(* (src/RB/uart_RingBuffer.c).  The application context runs the public    *)
(* functions statement by statement; the interrupt handler runs to         *)
(* completion between any two application statements.  The second half     *)
(* models the NMEA sentence decoder (src/NMEA.c), whose functions are      *)
(* sequential and are applied as single steps.                             *)
(***************************************************************************)
EXTENDS Integers, Sequences, FiniteSets, TLC

(***************************************************************************)
(* Bounds of the model.                                                    *)
(***************************************************************************)
\* Number of slots of each ring buffer (UART_BUFFER_SIZE of the missing
\* header uart_RingBuffer.h, scaled down).
UART_BUFFER_SIZE == 3
\* Most bytes the receive interrupt offers / the application writes in a run.
MaxRx == 4
MaxTx == 3

\* Bytes the receiver hardware delivers.
RxBytes == {0, 200}
\* Arguments the application passes to Uart_write (int c).
WriteArgs == {-1, 66, 255, 256}
\* The error flags of the UART status register.
ErrFlags == {"FE", "NE", "ORE"}

Slots == 0 .. (UART_BUFFER_SIZE - 1)

\* Arguments the application passes to Uart_sendstring (const char *s): the
\* null pointer, or a string given by its bytes before the terminator.
SendStrings == {<< >>, <<65>>, <<66, 65>>, <<65, 66, 65>>}
SendArgs == {[null |-> TRUE, str |-> << >>]}
            \cup {[null |-> FALSE, str |-> x] : x \in SendStrings}

(***************************************************************************)
(* State.                                                                  *)
(***************************************************************************)
VARIABLES
    rx_buffer,   \* ring_buffer rx_buffer: [buffer, head, tail]
    tx_buffer,   \* ring_buffer tx_buffer: [buffer, head, tail]
    flags,       \* error flags set in the UART status register
    it,          \* enabled UART interrupts: subset of {"ERR","RXNE","TXE"}
    pc,          \* position of the application context
    c,           \* local c of Uart_read / argument c of Uart_write (0 outside a call)
    i,           \* local i of Uart_write (0 outside a call)
    ret,         \* value returned by the last Uart_read that returned
    rxOffered,   \* history: bytes offered to store_char while no pop had begun
    rxMixed,     \* history: a byte was offered after a pop had begun
    rxAccepted,  \* history: bytes store_char stored in rx_buffer
    rxReturned,  \* history: bytes returned by successful Uart_read calls
    rdPreempted, \* history: store_char stored a byte inside the running Uart_read
    txWaited,    \* history: the last Uart_write found tx_buffer full and waited
    txWritten,   \* history: bytes (0..255) passed to Uart_write
    txDrained,   \* history: bytes the interrupt consumer took from tx_buffer
    sendstr,     \* the running Uart_sendstring: its pointer s and its argument
    nmea,        \* the sentence decoder: buffers, GPSSTRUCT record, last call
    avail        \* the last IsDataAvailable: its result, and the reads before it

vars == <<rx_buffer, tx_buffer, flags, it, pc, c, i, ret,
          rxOffered, rxMixed, rxAccepted, rxReturned, rdPreempted,
          txWaited, txWritten, txDrained, sendstr, nmea, avail>>

rxHist == <<rxOffered, rxMixed, rxAccepted, rxReturned, rdPreempted>>
txHist == <<txWaited, txWritten, txDrained>>
hist == <<rxHist, txHist>>
\* What the ring-buffer functions other than Uart_sendstring never touch.
ext == <<sendstr, nmea, avail>>

(***************************************************************************)
(* Pure helpers.                                                           *)
(***************************************************************************)
\* ring_buffer x = { { 0 }, 0, 0 }
EmptyRing == [buffer |-> [s \in Slots |-> 0], head |-> 0, tail |-> 0]

\* (unsigned int)(buffer->head + 1) % UART_BUFFER_SIZE
NextIndex(k) == (k + 1) % UART_BUFFER_SIZE

\* Variant of store_char that makes room when the buffer is full: it moves
\* tail past the oldest byte and stores the new one.
store_char_dropoldest(ch, buffer) ==
    IF NextIndex(buffer.head) # buffer.tail
    THEN [buffer EXCEPT !.buffer[buffer.head] = ch,
                        !.head = NextIndex(buffer.head)]
    ELSE [buffer EXCEPT !.buffer[buffer.head] = ch,
                        !.head = NextIndex(buffer.head),
                        !.tail = NextIndex(buffer.tail)]

\* Variant of store_char without the overflow test.
store_char_nocheck(ch, buffer) ==
    [buffer EXCEPT !.buffer[buffer.head] = ch, !.head = NextIndex(buffer.head)]

\* Variant of store_char that writes the slot before the overflow test.
store_char_overwrite(ch, buffer) ==
    LET n == NextIndex(buffer.head)
    IN  IF n # buffer.tail
        THEN [buffer EXCEPT !.buffer[buffer.head] = ch, !.head = n]
        ELSE [buffer EXCEPT !.buffer[buffer.head] = ch]

\* static void store_char(unsigned char c, ring_buffer *buffer)
store_char(ch, buffer) ==
    LET n == NextIndex(buffer.head)
    IN  IF n # buffer.tail
        THEN [buffer EXCEPT !.buffer[buffer.head] = ch, !.head = n]
        ELSE buffer

\* Variant of Ringbuf_reset that leaves the loop counter in the indices.
Ringbuf_reset_counter(buffer) ==
    [buffer |-> [s \in Slots |-> 0],
     head |-> UART_BUFFER_SIZE, tail |-> UART_BUFFER_SIZE]

\* static void Ringbuf_reset(ring_buffer *buffer)
Ringbuf_reset(buffer) ==
    [buffer |-> [s \in Slots |-> 0], head |-> 0, tail |-> 0]

\* Variant of IsDataAvailable that subtracts the indices without wrapping.
IsDataAvailable_nowrap(buffer) ==
    buffer.head - buffer.tail

\* Variant of IsDataAvailable that counts the slots, the one kept free
\* included.
IsDataAvailable_slots(buffer) ==
    IF buffer.head = buffer.tail THEN 0
    ELSE (((UART_BUFFER_SIZE + buffer.head - buffer.tail) % 65536)
              % UART_BUFFER_SIZE) + 1

\* int IsDataAvailable(void): (uint16_t)(SIZE + head - tail) % SIZE
IsDataAvailable(buffer) ==
    ((UART_BUFFER_SIZE + buffer.head - buffer.tail) % 65536) % UART_BUFFER_SIZE

\* (uint8_t)c
U8(x) == x % 256

IsPrefix(s, t) == Len(s) <= Len(t) /\ SubSeq(t, 1, Len(s)) = s
Take(s, n) == SubSeq(s, 1, IF n < Len(s) THEN n ELSE Len(s))

\* No sentence has been decoded.
NoDecode == [last |-> "none"]

\* No IsDataAvailable has been called.
NoAvail == [called |-> FALSE, n |-> 0, base |-> 0]

\* No Uart_sendstring has been called.
NoSend == [active |-> FALSE, called |-> FALSE, null |-> FALSE,
           s |-> << >>, arg |-> << >>, base |-> 0]

(***************************************************************************)
(* Initial state: the static initialisers, before Ringbuf_init.            *)
(***************************************************************************)
Init ==
    /\ rx_buffer = EmptyRing
    /\ tx_buffer = EmptyRing
    /\ flags \in SUBSET ErrFlags
    /\ it = {}
    /\ pc = "start"
    /\ c = 0
    /\ i = 0
    /\ ret = -1
    /\ rxOffered = << >>
    /\ rxMixed = FALSE
    /\ rxAccepted = << >>
    /\ rxReturned = << >>
    /\ rdPreempted = FALSE
    /\ txWaited = FALSE
    /\ txWritten = << >>
    /\ txDrained = << >>
    /\ sendstr = NoSend
    /\ avail = NoAvail
    /\ nmea = NoDecode

(***************************************************************************)
(* Application context.                                                    *)
(***************************************************************************)
\* void Ringbuf_init(void).  It runs once, before the receive interrupt is
\* enabled; "if (uart == NULL) return" never returns, uart being &huart1.
Ringbuf_init ==
    /\ pc = "start"
    /\ IF flags # {}
       THEN /\ flags' = {}
            /\ rx_buffer' = Ringbuf_reset(rx_buffer)
       ELSE UNCHANGED <<flags, rx_buffer>>
    /\ it' = it \cup {"ERR", "RXNE"}
    /\ pc' = "idle"
    /\ UNCHANGED <<tx_buffer, c, i, ret, hist>>
    /\ UNCHANGED ext

\* int Uart_read(void): the test head == tail
Uart_read_check ==
    /\ pc = "idle"
    /\ IF rx_buffer.head = rx_buffer.tail
       THEN /\ ret' = -1
            /\ pc' = "idle"
       ELSE /\ pc' = "rd_load"
            /\ UNCHANGED ret
    /\ UNCHANGED <<rx_buffer, tx_buffer, flags, it, c, i, hist>>
    /\ UNCHANGED ext

\* Variant of the load whose local c is a signed char.
Uart_read_load_signed ==
    /\ pc = "rd_load"
    /\ c' = IF rx_buffer.buffer[rx_buffer.tail] >= 128
            THEN rx_buffer.buffer[rx_buffer.tail] - 256
            ELSE rx_buffer.buffer[rx_buffer.tail]
    /\ pc' = "rd_adv"
    /\ UNCHANGED <<rx_buffer, tx_buffer, flags, it, i, ret, hist>>
    /\ UNCHANGED ext

\* Variant of the load that reads the slot at head.
Uart_read_load_head ==
    /\ pc = "rd_load"
    /\ c' = rx_buffer.buffer[rx_buffer.head]
    /\ pc' = "rd_adv"
    /\ UNCHANGED <<rx_buffer, tx_buffer, flags, it, i, ret, hist>>
    /\ UNCHANGED ext

\* unsigned char c = _rx_buffer->buffer[_rx_buffer->tail];
Uart_read_load ==
    /\ pc = "rd_load"
    /\ c' = rx_buffer.buffer[rx_buffer.tail]
    /\ pc' = "rd_adv"
    /\ UNCHANGED <<rx_buffer, tx_buffer, flags, it, i, ret, hist>>
    /\ UNCHANGED ext

\* _rx_buffer->tail = (_rx_buffer->tail + 1) % UART_BUFFER_SIZE; return c;
Uart_read_advance ==
    /\ pc = "rd_adv"
    /\ rx_buffer' = [rx_buffer EXCEPT !.tail = (rx_buffer.tail + 1) % UART_BUFFER_SIZE]
    /\ ret' = c
    /\ c' = 0
    /\ pc' = "idle"
    /\ rxReturned' = Append(rxReturned, c)
    /\ rdPreempted' = FALSE
    /\ UNCHANGED <<tx_buffer, flags, it, i, rxOffered, rxMixed, rxAccepted, txHist>>
    /\ UNCHANGED ext

\* void Uart_write(int c): the validation and int i = (head + 1) % SIZE
Uart_write_call(arg) ==
    /\ pc = "idle"
    /\ Len(txWritten) < MaxTx
    /\ IF arg < 0 \/ arg > 255
       THEN UNCHANGED <<pc, c, i, txWritten, txWaited>>
       ELSE /\ c' = arg
            /\ i' = NextIndex(tx_buffer.head)
            /\ pc' = "wr_wait"
            /\ txWritten' = Append(txWritten, arg)
            /\ txWaited' = FALSE
    /\ UNCHANGED <<rx_buffer, tx_buffer, flags, it, ret, rxHist, txDrained>>
    /\ UNCHANGED ext

\* Variant of the wait with the loop condition inverted.
Uart_write_wait_inverted ==
    /\ pc = "wr_wait"
    /\ pc' = IF i # tx_buffer.tail THEN "wr_wait" ELSE "wr_store"
    /\ txWaited' = (txWaited \/ i # tx_buffer.tail)
    /\ UNCHANGED <<rx_buffer, tx_buffer, flags, it, c, i, ret, rxHist, txWritten, txDrained>>
    /\ UNCHANGED ext

\* Variant of the wait that goes on without testing for a full buffer.
Uart_write_wait_none ==
    /\ pc = "wr_wait"
    /\ pc' = "wr_store"
    /\ UNCHANGED <<rx_buffer, tx_buffer, flags, it, c, i, ret, hist>>
    /\ UNCHANGED ext

\* while (i == _tx_buffer->tail);
Uart_write_wait ==
    /\ pc = "wr_wait"
    /\ pc' = IF i = tx_buffer.tail THEN "wr_wait" ELSE "wr_store"
    /\ txWaited' = (txWaited \/ i = tx_buffer.tail)
    /\ UNCHANGED <<rx_buffer, tx_buffer, flags, it, c, i, ret, rxHist, txWritten, txDrained>>
    /\ UNCHANGED ext

\* Variant of the store that writes the slot at the new head i.
Uart_write_store_at_i ==
    /\ pc = "wr_store"
    /\ tx_buffer' = [tx_buffer EXCEPT !.buffer[i] = U8(c)]
    /\ pc' = "wr_head"
    /\ UNCHANGED <<rx_buffer, flags, it, c, i, ret, hist>>
    /\ UNCHANGED ext

\* _tx_buffer->buffer[_tx_buffer->head] = (uint8_t)c;
Uart_write_store ==
    /\ pc = "wr_store"
    /\ tx_buffer' = [tx_buffer EXCEPT !.buffer[tx_buffer.head] = U8(c)]
    /\ pc' = "wr_head"
    /\ UNCHANGED <<rx_buffer, flags, it, c, i, ret, hist>>
    /\ UNCHANGED ext

\* _tx_buffer->head = i;
Uart_write_head ==
    /\ pc = "wr_head"
    /\ tx_buffer' = [tx_buffer EXCEPT !.head = i]
    /\ pc' = "wr_enable"
    /\ UNCHANGED <<rx_buffer, flags, it, c, i, ret, hist>>
    /\ UNCHANGED ext

\* Where Uart_write returns to: the loop of Uart_sendstring that called it,
\* or the application.
ReturnPc == IF sendstr.active THEN "ss_loop" ELSE "idle"

\* Variant of the last statement that leaves the interrupt as it is.
Uart_write_enable_skip ==
    /\ pc = "wr_enable"
    /\ c' = 0
    /\ i' = 0
    /\ pc' = ReturnPc
    /\ UNCHANGED <<rx_buffer, tx_buffer, flags, it, ret, hist>>
    /\ UNCHANGED ext

\* __HAL_UART_ENABLE_IT(uart, UART_IT_TXE);
Uart_write_enable ==
    /\ pc = "wr_enable"
    /\ it' = it \cup {"TXE"}
    /\ c' = 0
    /\ i' = 0
    /\ pc' = ReturnPc
    /\ UNCHANGED <<rx_buffer, tx_buffer, flags, ret, hist>>
    /\ UNCHANGED ext

\* void Uart_sendstring(const char *s): if (s == NULL) return;
Uart_sendstring_call(a) ==
    /\ pc = "idle"
    /\ Len(txWritten) + Len(a.str) <= MaxTx
    /\ IF a.null
       THEN /\ sendstr' = [active |-> FALSE, called |-> TRUE, null |-> TRUE,
                           s |-> << >>, arg |-> << >>, base |-> Len(txWritten)]
            /\ UNCHANGED pc
       ELSE /\ sendstr' = [active |-> TRUE, called |-> TRUE, null |-> FALSE,
                           s |-> a.str, arg |-> a.str, base |-> Len(txWritten)]
            /\ pc' = "ss_loop"
    /\ UNCHANGED <<rx_buffer, tx_buffer, flags, it, c, i, ret, hist, nmea, avail>>

\* Variant of the loop that advances s before it reads the byte to write.
Uart_sendstring_loop_preinc ==
    /\ pc = "ss_loop"
    /\ IF sendstr.s = << >>
       THEN /\ sendstr' = [sendstr EXCEPT !.active = FALSE]
            /\ pc' = "idle"
            /\ UNCHANGED <<c, i, txWritten, txWaited>>
       ELSE /\ sendstr' = [sendstr EXCEPT !.s = Tail(sendstr.s)]
            /\ c' = IF Len(sendstr.s) >= 2 THEN sendstr.s[2] ELSE 0
            /\ i' = NextIndex(tx_buffer.head)
            /\ pc' = "wr_wait"
            /\ txWritten' = Append(txWritten, c')
            /\ txWaited' = FALSE
    /\ UNCHANGED <<rx_buffer, tx_buffer, flags, it, ret, rxHist, txDrained, nmea, avail>>

\* while (*s) Uart_write(*s++);  with the entry of the Uart_write it calls:
\* the validation and int i = (head + 1) % SIZE
Uart_sendstring_loop ==
    /\ pc = "ss_loop"
    /\ IF sendstr.s = << >>
       THEN /\ sendstr' = [sendstr EXCEPT !.active = FALSE]
            /\ pc' = "idle"
            /\ UNCHANGED <<c, i, txWritten, txWaited>>
       ELSE /\ sendstr' = [sendstr EXCEPT !.s = Tail(sendstr.s)]
            /\ IF Head(sendstr.s) < 0 \/ Head(sendstr.s) > 255
               THEN UNCHANGED <<pc, c, i, txWritten, txWaited>>
               ELSE /\ c' = Head(sendstr.s)
                    /\ i' = NextIndex(tx_buffer.head)
                    /\ pc' = "wr_wait"
                    /\ txWritten' = Append(txWritten, Head(sendstr.s))
                    /\ txWaited' = FALSE
    /\ UNCHANGED <<rx_buffer, tx_buffer, flags, it, ret, rxHist, txDrained, nmea, avail>>

(***************************************************************************)
(* Interrupt context (the handler is not part of the sources; it is the    *)
(* collaborator the specification describes).                              *)
(***************************************************************************)
\* A pop has begun: tail has moved or Uart_read is past its emptiness test.
PopBegun == rxReturned # << >> \/ pc \in {"rd_load", "rd_adv"}

\* Receive interrupt: the received byte goes to store_char(c, _rx_buffer).
RxISR(ch) ==
    /\ "RXNE" \in it
    /\ Len(rxAccepted) < MaxRx
    /\ Len(rxOffered) < MaxRx
    /\ rx_buffer' = store_char(ch, rx_buffer)
    /\ rxAccepted' = IF rx_buffer'.head # rx_buffer.head
                     THEN Append(rxAccepted, ch) ELSE rxAccepted
    /\ rxMixed' = (rxMixed \/ PopBegun)
    /\ rxOffered' = IF rxMixed' THEN << >> ELSE Append(rxOffered, ch)
    /\ rdPreempted' = (rdPreempted \/ (pc \in {"rd_load", "rd_adv"}
                                        /\ rx_buffer'.head # rx_buffer.head))
    /\ UNCHANGED <<tx_buffer, flags, it, pc, c, i, ret, rxReturned, txHist>>
    /\ UNCHANGED ext

\* Transmit-ready interrupt: an empty buffer disables the interrupt, otherwise
\* the byte at tail goes to the data register and tail advances.
TxISR ==
    /\ "TXE" \in it
    /\ IF tx_buffer.head = tx_buffer.tail
       THEN /\ it' = it \ {"TXE"}
            /\ UNCHANGED <<tx_buffer, txDrained>>
       ELSE /\ txDrained' = Append(txDrained, tx_buffer.buffer[tx_buffer.tail])
            /\ tx_buffer' = [tx_buffer EXCEPT !.tail = (tx_buffer.tail + 1) % UART_BUFFER_SIZE]
            /\ UNCHANGED it
    /\ UNCHANGED <<rx_buffer, flags, pc, c, i, ret, rxHist, txWritten, txWaited>>
    /\ UNCHANGED ext

\* The receiver hardware signals a framing, noise or overrun condition.
HwError(f) ==
    /\ f \notin flags
    /\ flags' = flags \cup {f}
    /\ UNCHANGED <<rx_buffer, tx_buffer, it, pc, c, i, ret, hist>>
    /\ UNCHANGED ext

(***************************************************************************)
(* Quantities the properties speak about.                                  *)
(***************************************************************************)
\* Bytes stored in rx_buffer and not yet returned.
RxCount == Len(rxAccepted) - Len(rxReturned)
RxPending == SubSeq(rxAccepted, Len(rxReturned) + 1, Len(rxAccepted))

\* Bytes published in tx_buffer (head moved) and not yet drained.
TxPublished ==
    Len(txWritten) - (IF pc \in {"wr_wait", "wr_store", "wr_head"} THEN 1 ELSE 0)
TxCount == TxPublished - Len(txDrained)
TxPending == SubSeq(txWritten, Len(txDrained) + 1, TxPublished)

\* The slots from tail up to head, oldest first.
Contents(buffer) ==
    [k \in 1 .. ((UART_BUFFER_SIZE + buffer.head - buffer.tail) % UART_BUFFER_SIZE)
        |-> buffer.buffer[(buffer.tail + k - 1) % UART_BUFFER_SIZE]]

IsFull(buffer) == NextIndex(buffer.head) = buffer.tail

ReadPcs == {"rd_load", "rd_adv"}
WritePcs == {"wr_wait", "wr_store", "wr_head", "wr_enable"}

(***************************************************************************)
(* Properties.                                                             *)
(***************************************************************************)
\* C1: with store_char running to completion between any two statements of
\* Uart_read, the bytes returned by successful Uart_read calls are a prefix,
\* in order, of the bytes store_char accepted; the byte a running Uart_read
\* has loaded is the oldest accepted byte not yet returned.
C1_RxReturnedIsPrefix ==
    /\ IsPrefix(rxReturned, rxAccepted)
    /\ pc = "rd_adv" =>
          /\ Len(rxReturned) < Len(rxAccepted)
          /\ c = rxAccepted[Len(rxReturned) + 1]

\* A Uart_read that store_char preempted with a stored byte is about to
\* return, after an earlier byte was already returned.
C1_Witness ==
    /\ pc = "rd_adv"
    /\ rdPreempted
    /\ Len(rxReturned) >= 1
    /\ c = 200

\* C2: from the empty buffer, while pushes come with no pop in between,
\* exactly the first UART_BUFFER_SIZE - 1 offered bytes are stored, and the
\* pops that follow return them first in, first out.
C2_FirstCapacityMinusOneStored ==
    ~rxMixed =>
        /\ rxAccepted = Take(rxOffered, UART_BUFFER_SIZE - 1)
        /\ IsPrefix(rxReturned, Take(rxOffered, UART_BUFFER_SIZE - 1))
        /\ Contents(rx_buffer) = RxPending

\* More pushes than the buffer holds were offered, then everything stored
\* was popped.
C2_Witness ==
    /\ ~rxMixed
    /\ Len(rxOffered) >= UART_BUFFER_SIZE
    /\ rxReturned = Take(rxOffered, UART_BUFFER_SIZE - 1)
    /\ pc = "idle"

\* C3: a push on a full buffer leaves head, tail and every slot unchanged
\* and drops the incoming byte.
C3_PushOnFullDrops ==
    [][\A ch \in RxBytes :
          (RxISR(ch) /\ IsFull(rx_buffer)) =>
              (rx_buffer' = rx_buffer /\ rxAccepted' = rxAccepted)]_vars

\* A byte was offered to the full buffer and dropped.
C3_Witness ==
    /\ ~rxMixed
    /\ IsFull(rx_buffer)
    /\ Len(rxOffered) > Len(rxAccepted)
    /\ rx_buffer.head # 0

\* C4: IsDataAvailable equals the number of successful pushes minus the
\* number of successful pops, which is (capacity + head - tail) mod capacity.
C4_AvailableIsPushesMinusPops ==
    /\ Len(rxReturned) <= Len(rxAccepted)
    /\ IsDataAvailable(rx_buffer) = Len(rxAccepted) - Len(rxReturned)
    /\ IsDataAvailable(rx_buffer)
          = (UART_BUFFER_SIZE + rx_buffer.head - rx_buffer.tail) % UART_BUFFER_SIZE

\* The indices have wrapped: head is behind tail and bytes are queued.
C4_Witness ==
    /\ rx_buffer.head < rx_buffer.tail
    /\ IsDataAvailable(rx_buffer) = UART_BUFFER_SIZE - 1
    /\ Len(rxReturned) >= 1

\* C5: in each ring buffer head and tail stay in 0 .. capacity - 1, the
\* buffer holds no byte exactly when head = tail, it holds at most
\* capacity - 1 bytes, and it refuses a push exactly when
\* (head + 1) mod capacity = tail.
C5_RingInvariant ==
    /\ rx_buffer.head \in Slots /\ rx_buffer.tail \in Slots
    /\ tx_buffer.head \in Slots /\ tx_buffer.tail \in Slots
    /\ RxCount \in 0 .. (UART_BUFFER_SIZE - 1)
    /\ TxCount \in 0 .. (UART_BUFFER_SIZE - 1)
    /\ (RxCount = 0) <=> (rx_buffer.head = rx_buffer.tail)
    /\ (TxCount = 0) <=> (tx_buffer.head = tx_buffer.tail)
    /\ (RxCount = UART_BUFFER_SIZE - 1) <=> IsFull(rx_buffer)
    /\ (TxCount = UART_BUFFER_SIZE - 1) <=> IsFull(tx_buffer)
    /\ \A ch \in RxBytes :
          (store_char(ch, rx_buffer) = rx_buffer) <=> IsFull(rx_buffer)
    /\ pc = "wr_store" => ~IsFull(tx_buffer)

\* Both buffers are full at once, each with wrapped indices.
C5_Witness ==
    /\ IsFull(rx_buffer) /\ rx_buffer.head < rx_buffer.tail
    /\ IsFull(tx_buffer) /\ tx_buffer.head < tx_buffer.tail

\* C6 (steps): Uart_read never blocks; on an empty buffer it returns -1 and leaves
\* the buffer as it is; otherwise it returns the oldest queued byte, the one
\* at tail, as a value 0 .. 255, advances tail by one modulo the capacity and
\* leaves head and the slots as they are.
C6_ReadStep ==
    /\ (Uart_read_check /\ rx_buffer.head = rx_buffer.tail) =>
          (ret' = -1 /\ pc' = "idle" /\ rx_buffer' = rx_buffer)
    /\ (Uart_read_check /\ rx_buffer.head # rx_buffer.tail) =>
          (pc' = "rd_load" /\ rx_buffer' = rx_buffer)
    /\ Uart_read_load => rx_buffer' = rx_buffer
    /\ Uart_read_advance =>
          /\ RxCount > 0
          /\ ret' = rxAccepted[Len(rxReturned) + 1]
          /\ ret' = rx_buffer.buffer[rx_buffer.tail]
          /\ ret' \in 0 .. 255
          /\ rx_buffer'.tail = (rx_buffer.tail + 1) % UART_BUFFER_SIZE
          /\ rx_buffer'.head = rx_buffer.head
          /\ rx_buffer'.buffer = rx_buffer.buffer
          /\ pc' = "idle"

\* C6 (whole statement): every statement of Uart_read is always enabled, and
\* every step of Uart_read has the effect C6_ReadStep describes.
C6_ReadNeverBlocks ==
    /\ [](pc = "idle" => ENABLED Uart_read_check)
    /\ [](pc \in ReadPcs => ENABLED (Uart_read_load \/ Uart_read_advance))
    /\ [][C6_ReadStep]_vars

\* A read has returned a byte above 127 and moved tail around the end of the
\* array, and the buffer is empty so that the next read returns -1.
C6_Witness ==
    /\ pc = "idle"
    /\ ret = 200
    /\ rx_buffer.tail = 0
    /\ Len(rxReturned) = UART_BUFFER_SIZE
    /\ rx_buffer.head = rx_buffer.tail

\* C7: Uart_write on a full transmit buffer waits instead of dropping or
\* overwriting: the bytes the interrupt consumer takes from tx_buffer are a
\* prefix, in order, of the bytes 0 .. 255 passed to Uart_write, and the
\* queued slots hold the bytes written and not yet taken.
C7_TxDrainedIsPrefix ==
    /\ IsPrefix(txDrained, txWritten)
    /\ Contents(tx_buffer) = TxPending
    /\ pc \in {"wr_store", "wr_head"} => i # tx_buffer.tail
    /\ \A k \in 1 .. Len(txWritten) : txWritten[k] \in 0 .. 255

\* A Uart_write that had to wait on the full buffer has returned and every
\* byte written, more than the buffer holds, was taken by the consumer.
C7_Witness ==
    /\ txWaited
    /\ pc = "idle"
    /\ Len(txWritten) >= UART_BUFFER_SIZE
    /\ txDrained = txWritten

\* C8: with the transmit interrupt kept served, every call of Uart_write
\* returns.
C8_WriteReturns == (pc \in WritePcs) ~> (pc = "idle")

\* The application spins in Uart_write on the full transmit buffer.
C8_Witness ==
    /\ pc = "wr_wait"
    /\ i = tx_buffer.tail
    /\ txWaited
    /\ TxCount = UART_BUFFER_SIZE - 1

\* C9: Uart_write enables the transmit-ready interrupt after it has published
\* the new head, so outside Uart_write a non-empty transmit buffer has the
\* transmit-ready interrupt enabled.
C9_TxeEnabledWhenPending ==
    /\ (pc \notin WritePcs /\ tx_buffer.head # tx_buffer.tail) => "TXE" \in it
    /\ pc = "wr_enable" => tx_buffer.head = i
    /\ (pc = "idle" /\ "TXE" \notin it) => txDrained = txWritten

\* Uart_write has returned with a byte queued and the interrupt enabled,
\* after the handler had emptied the buffer before.
C9_Witness ==
    /\ pc = "idle"
    /\ tx_buffer.head # tx_buffer.tail
    /\ "TXE" \in it
    /\ Len(txDrained) >= 1
    /\ TxCount = 1

\* C10: whenever the receiver signals a framing, noise or overrun condition,
\* the transport clears it and resets the receive buffer to head = tail = 0.
C10_ErrorAlwaysRecovered ==
    (flags # {}) ~> (flags = {} /\ rx_buffer.head = 0 /\ rx_buffer.tail = 0)

\* C11: the reset Ringbuf_init performs on an error condition changes the
\* receive buffer only: after it rx_buffer has head = tail = 0 and
\* IsDataAvailable reports 0, and tx_buffer has the head, the tail and the
\* queued bytes it had.
C11_ResetStep ==
    (pc = "start" /\ flags # {} /\ pc' = "idle") =>
        /\ rx_buffer'.head = 0
        /\ rx_buffer'.tail = 0
        /\ IsDataAvailable(rx_buffer') = 0
        /\ tx_buffer'.head = tx_buffer.head
        /\ tx_buffer'.tail = tx_buffer.tail
        /\ Contents(tx_buffer') = Contents(tx_buffer)

SentByCall == SubSeq(txWritten, sendstr.base + 1, Len(txWritten))

\* C12: the bytes a Uart_sendstring(s) with s not null has passed to
\* Uart_write, followed by the bytes s still points at, are the bytes of the
\* string; when it has returned, every byte of the string before the
\* terminator went through Uart_write once, in order, and is queued in
\* tx_buffer unless the interrupt already took it.
C12_StringWritten ==
    (sendstr.called /\ ~sendstr.null) =>
        /\ SentByCall \o sendstr.s = sendstr.arg
        /\ ~sendstr.active =>
              /\ pc = "idle"
              /\ SentByCall = sendstr.arg
              /\ txDrained \o Contents(tx_buffer) = txWritten

\* C12: a Uart_sendstring with the null pointer leaves tx_buffer, and all
\* else the transmit side holds, unchanged.
C12_NullStep ==
    (pc = "idle" /\ ~sendstr'.active /\ sendstr'.null /\ sendstr' # sendstr) =>
        UNCHANGED <<tx_buffer, pc, c, i, it, txHist>>

\* C12 (both cases): Uart_sendstring(NULL) changes nothing, any other
\* Uart_sendstring(s) enqueues the bytes of s in order, once each.
C12_SendstringEnqueues == []C12_StringWritten /\ [][C12_NullStep]_vars

\* A Uart_sendstring of a string longer than the free space has returned:
\* it waited for the interrupt, and all its bytes were written.
C12_Witness ==
    /\ sendstr.called /\ ~sendstr.null /\ ~sendstr.active
    /\ pc = "idle"
    /\ Len(sendstr.arg) >= 2
    /\ SentByCall = sendstr.arg
    /\ txWaited

\* The application context: one statement of one public function.
AppRead == Uart_read_check \/ Uart_read_load \/ Uart_read_advance

AppWrite ==
    \/ \E arg \in WriteArgs : Uart_write_call(arg)
    \/ Uart_write_wait
    \/ Uart_write_store
    \/ Uart_write_head
    \/ Uart_write_enable

Next ==
    \/ Ringbuf_init
    \/ Uart_read_check
    \/ Uart_read_load
    \/ Uart_read_advance
    \/ \E arg \in WriteArgs : Uart_write_call(arg)
    \/ Uart_write_wait
    \/ Uart_write_store
    \/ Uart_write_head
    \/ Uart_write_enable
    \/ \E ch \in RxBytes : RxISR(ch)
    \/ TxISR

\* The transport in operation.
Spec == Init /\ [][Next]_vars

\* The transport with a transmit interrupt that keeps being served and an
\* application that keeps executing the call it is in.
FairSpec ==
    /\ Init /\ [][Next]_vars
    /\ WF_vars(Uart_write_wait \/ Uart_write_store \/ Uart_write_head \/ Uart_write_enable)
    /\ WF_vars(TxISR)

\* The transport started while an error condition is pending.
ResetInit == Init /\ flags # {}

ResetSpec == ResetInit /\ [][Next]_vars

\* The transmit path with an application that sends strings.
NextSend ==
    \/ Ringbuf_init
    \/ \E a \in SendArgs : Uart_sendstring_call(a)
    \/ Uart_sendstring_loop
    \/ Uart_write_wait
    \/ Uart_write_store
    \/ Uart_write_head
    \/ Uart_write_enable
    \/ TxISR

SendSpec == Init /\ [][NextSend]_vars

\* A call of IsDataAvailable between two calls of the application: one read
\* of head and of tail.  avail.base counts the reads that returned before it.
Call_IsDataAvailable ==
    /\ pc = "idle"
    /\ avail' = [called |-> TRUE, n |-> IsDataAvailable(rx_buffer),
                 base |-> Len(rxReturned)]
    /\ UNCHANGED <<rx_buffer, tx_buffer, flags, it, pc, c, i, ret, hist,
                   sendstr, nmea>>

\* The consumer asking how many bytes there are and reading, the receive
\* interrupt pushing at any point; no reset after Ringbuf_init.
NextAvail ==
    \/ Ringbuf_init
    \/ Call_IsDataAvailable
    \/ Uart_read_check
    \/ Uart_read_load
    \/ Uart_read_advance
    \/ \E ch \in RxBytes : RxISR(ch)

AvailSpec == Init /\ [][NextAvail]_vars

\* The receive path with a receiver that signals error conditions.
NextErr ==
    \/ Ringbuf_init
    \/ Uart_read_check
    \/ Uart_read_load
    \/ Uart_read_advance
    \/ \E ch \in RxBytes : RxISR(ch)
    \/ \E f \in ErrFlags : HwError(f)

ErrSpec ==
    /\ Init /\ [][NextErr]_vars
    /\ WF_vars(Ringbuf_init)
    /\ WF_vars(Uart_read_check \/ Uart_read_load \/ Uart_read_advance)

(***************************************************************************)
(* The sentence decoder (src/NMEA.c).  A character is its code; a buffer   *)
(* is the char array the caller passes, terminator included.  A float is   *)
(* carried as the integer number of 1/FloatOne it holds, which is exact    *)
(* for the decimal fields of the sentences below.                          *)
(***************************************************************************)
\* Decimal digits a float of the model carries after the point.
FloatDigits == 4
FloatOne == 10 ^ FloatDigits

\* The character codes of the characters the sentences are written with.
Ascii ==
    (" " :> 32) @@ ("$" :> 36) @@ ("*" :> 42) @@ ("+" :> 43) @@ ("," :> 44) @@ ("-" :> 45) @@ ("." :> 46)
    @@ ("0" :> 48) @@ ("1" :> 49) @@ ("2" :> 50) @@ ("3" :> 51) @@ ("4" :> 52)
    @@ ("5" :> 53) @@ ("6" :> 54) @@ ("7" :> 55) @@ ("8" :> 56) @@ ("9" :> 57)
    @@ ("A" :> 65) @@ ("C" :> 67) @@ ("E" :> 69) @@ ("G" :> 71) @@ ("M" :> 77)
    @@ ("N" :> 78) @@ ("P" :> 80) @@ ("R" :> 82) @@ ("S" :> 83) @@ ("V" :> 86)
    @@ ("W" :> 87)

\* The characters of a string literal, and the char array that holds it.
Str(t) == [k \in 1 .. Len(t) |-> Ascii[t[k]]]
CStr(t) == Str(t) \o <<0>>

IsDigit(ch) == ch >= Ascii["0"] /\ ch <= Ascii["9"]
IsSpace(ch) == ch = Ascii[" "] \/ (ch >= 9 /\ ch <= 13)

Min(S) == CHOOSE x \in S : \A y \in S : x <= y

\* Quotient rounded toward zero: the conversion of a quotient to an integer.
TruncDiv(a, b) == IF a >= 0 THEN a \div b ELSE -((-a) \div b)

\* Index of the terminator of the string that starts at index p of mem.
StrEnd(mem, p) == Min({q \in p .. Len(mem) : mem[q] = 0})

\* The string that starts at index p of mem.
StrAt(mem, p) == SubSeq(mem, p, StrEnd(mem, p) - 1)

\* token[k] for the token at index tok of mem; past the array the read is
\* undefined and yields g.
CharAt(mem, tok, k, g) == IF tok + k <= Len(mem) THEN mem[tok + k] ELSE g

\* strtok: the token found at index p of a string whose terminator is at
\* stop, q being the index of the first comma after p (stop if there is none).
StrtokEnd(mem, stop, p, q) ==
    IF q = stop
    THEN [token |-> p, mem |-> mem, save |-> stop]
    ELSE [token |-> p, mem |-> [mem EXCEPT ![q] = 0], save |-> q + 1]

\* strtok: the scan from index pos of a string whose terminator is at stop;
\* starts are the indices that do not hold a comma.
StrtokScan(mem, stop, starts) ==
    IF starts = {}
    THEN [token |-> 0, mem |-> mem, save |-> stop]
    ELSE StrtokEnd(mem, stop, Min(starts),
                   Min({r \in Min(starts) .. stop :
                           r = stop \/ mem[r] = Ascii[","]}))

\* strtok(.., ",") continuing at index pos of mem: the token it returns
\* (0 for NULL), the array after it wrote the terminator, and where the next
\* call continues.  Commas before the token are skipped.
Strtok(mem, pos) ==
    StrtokScan(mem, StrEnd(mem, pos),
               {p \in pos .. (StrEnd(mem, pos) - 1) : mem[p] # Ascii[","]})

\* The string without its leading white space.
SkipSpace(str) ==
    LET n == Min({k \in 0 .. Len(str) : k = Len(str) \/ ~IsSpace(str[k + 1])})
    IN  SubSeq(str, n + 1, Len(str))

\* The digits the string starts with.
LeadDigits(str) ==
    LET n == Min({k \in 0 .. Len(str) : k = Len(str) \/ ~IsDigit(str[k + 1])})
    IN  SubSeq(str, 1, n)

\* The number a string of digits denotes.
DigitsValue(d) ==
    LET v[k \in 0 .. Len(d)] ==
            IF k = 0 THEN 0 ELSE v[k - 1] * 10 + (d[k] - Ascii["0"])
    IN  v[Len(d)]

\* The string after an optional sign, and whether the sign is '-'.
Unsigned(str) ==
    IF str # << >> /\ str[1] \in {Ascii["-"], Ascii["+"]} THEN Tail(str) ELSE str
IsNegative(str) == str # << >> /\ str[1] = Ascii["-"]

\* x, negated when the string starts with '-'.
WithSign(str, x) == IF IsNegative(str) THEN -x ELSE x

\* int atoi(const char *)
atoi(str) ==
    WithSign(SkipSpace(str), DigitsValue(LeadDigits(Unsigned(SkipSpace(str)))))

\* The first FloatDigits digits after the point that starts the string rest,
\* zeros where there are none.
Fraction(rest) ==
    [k \in 1 .. FloatDigits |->
        IF rest # << >> /\ rest[1] = Ascii["."] /\ k <= Len(LeadDigits(Tail(rest)))
        THEN rest[k + 1] ELSE Ascii["0"]]

\* atof: the value of the unsigned string u that starts with the digits ip.
DecimalValue(u, ip) ==
    DigitsValue(ip) * FloatOne
        + DigitsValue(Fraction(SubSeq(u, Len(ip) + 1, Len(u))))

\* double atof(const char *), for decimal notation: white space, sign,
\* digits, point, digits; in units of 1/FloatOne.
atof(str) ==
    WithSign(SkipSpace(str),
             DecimalValue(Unsigned(SkipSpace(str)),
                          LeadDigits(Unsigned(SkipSpace(str)))))

\* parse_coordinate: int_degrees + (minutes / 60.0), with
\* minutes = degrees - (int_degrees * 100)
DecimalDegrees(degrees, int_degrees) ==
    int_degrees * FloatOne
        + TruncDiv(degrees - int_degrees * 100 * FloatOne, 60)

\* static float parse_coordinate(const char *str, char direction), with
\* int_degrees = (int)(degrees / 100)
parse_coordinate(str, direction) ==
    IF direction = Ascii["S"] \/ direction = Ascii["W"]
    THEN -DecimalDegrees(atof(str), TruncDiv(atof(str), 100 * FloatOne))
    ELSE DecimalDegrees(atof(str), TruncDiv(atof(str), 100 * FloatOne))

\* The conversion of a float to the int32_t field it is assigned to.
Int32OfFloat(f) == TruncDiv(f, FloatOne)

\* The conversions of an int to the field it is assigned to.
I8(x) == ((x + 128) % 256) - 128
U16(x) == x % 65536

\* A char * argument: the null pointer, or the array it points to.
NullBuffer == [null |-> TRUE, mem |-> <<0>>]
Buffer(mem) == [null |-> FALSE, mem |-> mem]

\* GGASTRUCT and RMCSTRUCT after memset(.., 0, ..)
ZeroGGA ==
    [location |-> [latitude |-> 0, longitude |-> 0, NS |-> 0, EW |-> 0],
     time |-> [hour |-> 0, min |-> 0, sec |-> 0],
     altitude |-> [altitude |-> 0, unit |-> 0],
     is_fix_valid |-> 0, num_of_sat |-> 0]
ZeroRMC ==
    [date |-> [day |-> 0, month |-> 0, year |-> 0],
     speed_knots |-> 0, course |-> 0, is_data_valid |-> 0]
ZeroGPS == [ggastruct |-> ZeroGGA, rmcstruct |-> ZeroRMC]

\* A GPSSTRUCT that holds what an earlier fix left in it.
StaleGPS ==
    [ggastruct |->
        [location |-> [latitude |-> -33, longitude |-> -70,
                       NS |-> Ascii["S"], EW |-> Ascii["W"]],
         time |-> [hour |-> 23, min |-> 59, sec |-> 58],
         altitude |-> [altitude |-> 520, unit |-> Ascii["M"]],
         is_fix_valid |-> 2, num_of_sat |-> 11],
     rmcstruct |->
        [date |-> [day |-> 31, month |-> 12, year |-> 2019],
         speed_knots |-> 12 * FloatOne, course |-> 270 * FloatOne,
         is_data_valid |-> 1]]

\* Two decimal digits read at token[k], token[k + 1].
TwoDigits(mem, tok, k, g) ==
    (CharAt(mem, tok, k, g) - Ascii["0"]) * 10
        + (CharAt(mem, tok, k + 1, g) - Ascii["0"])

\* Variant of the switch of decodeGGA that reads the time only from a
\* token of six characters or more.
GGAField_checked(field_num, mem, tok, gga, g) ==
    CASE field_num = 1 ->
            IF Len(StrAt(mem, tok)) < 6 THEN gga
            ELSE [gga EXCEPT !.time.hour = U8(TwoDigits(mem, tok, 0, g)),
                             !.time.min = U8(TwoDigits(mem, tok, 2, g)),
                             !.time.sec = U8(TwoDigits(mem, tok, 4, g))]
      [] field_num = 2 ->
            [gga EXCEPT !.location.latitude =
                Int32OfFloat(parse_coordinate(StrAt(mem, tok), gga.location.NS))]
      [] field_num = 3 -> [gga EXCEPT !.location.NS = mem[tok]]
      [] field_num = 4 ->
            [gga EXCEPT !.location.longitude =
                Int32OfFloat(parse_coordinate(StrAt(mem, tok), gga.location.EW))]
      [] field_num = 5 -> [gga EXCEPT !.location.EW = mem[tok]]
      [] field_num = 6 -> [gga EXCEPT !.is_fix_valid = I8(atoi(StrAt(mem, tok)))]
      [] field_num = 7 -> [gga EXCEPT !.num_of_sat = U8(atoi(StrAt(mem, tok)))]
      [] field_num = 9 ->
            [gga EXCEPT !.altitude.altitude = Int32OfFloat(atof(StrAt(mem, tok)))]
      [] field_num = 10 -> [gga EXCEPT !.altitude.unit = mem[tok]]
      [] OTHER -> gga

\* decodeGGA: the switch (field_num) applied to one token.
GGAField(field_num, mem, tok, gga, g) ==
    CASE field_num = 1 ->
            [gga EXCEPT !.time.hour = U8(TwoDigits(mem, tok, 0, g)),
                        !.time.min = U8(TwoDigits(mem, tok, 2, g)),
                        !.time.sec = U8(TwoDigits(mem, tok, 4, g))]
      [] field_num = 2 ->
            [gga EXCEPT !.location.latitude =
                Int32OfFloat(parse_coordinate(StrAt(mem, tok), gga.location.NS))]
      [] field_num = 3 -> [gga EXCEPT !.location.NS = mem[tok]]
      [] field_num = 4 ->
            [gga EXCEPT !.location.longitude =
                Int32OfFloat(parse_coordinate(StrAt(mem, tok), gga.location.EW))]
      [] field_num = 5 -> [gga EXCEPT !.location.EW = mem[tok]]
      [] field_num = 6 -> [gga EXCEPT !.is_fix_valid = I8(atoi(StrAt(mem, tok)))]
      [] field_num = 7 -> [gga EXCEPT !.num_of_sat = U8(atoi(StrAt(mem, tok)))]
      [] field_num = 9 ->
            [gga EXCEPT !.altitude.altitude = Int32OfFloat(atof(StrAt(mem, tok)))]
      [] field_num = 10 -> [gga EXCEPT !.altitude.unit = mem[tok]]
      [] OTHER -> gga

\* decodeGGA: the loop while (token != NULL), entered with the cursor of
\* strtok at index pos (GGALoop).
RECURSIVE GGALoop(_, _, _, _, _)
\* decodeGGA: one turn of the loop, t being what strtok returned.
GGAToken(t, field_num, gga, g) ==
    IF t.token = 0
    THEN [mem |-> t.mem, gga |-> gga, fields |-> field_num, save |-> t.save]
    ELSE GGALoop(t.mem, t.save, field_num + 1,
                 GGAField(field_num, t.mem, t.token, gga, g), g)

GGALoop(mem, pos, field_num, gga, g) ==
    GGAToken(Strtok(mem, pos), field_num, gga, g)

\* decodeGGA: return 0 after the loop ended with r.
GGADone(r) == [ret |-> 0, buf |-> Buffer(r.mem), rec |-> r.gga]

\* Variant of decodeGGA that clears the record before it decodes.
decodeGGA_clear(GGAbuffer, recnull, gga, g) ==
    IF GGAbuffer.null \/ recnull
    THEN [ret |-> -1, buf |-> GGAbuffer, rec |-> gga]
    ELSE GGADone(GGALoop(GGAbuffer.mem, 1, 0, ZeroGGA, g))

\* int decodeGGA(char *GGAbuffer, GGASTRUCT *gga): the value returned, the
\* caller's array and record after the call.  recnull: gga is NULL.
decodeGGA(GGAbuffer, recnull, gga, g) ==
    IF GGAbuffer.null \/ recnull
    THEN [ret |-> -1, buf |-> GGAbuffer, rec |-> gga]
    ELSE GGADone(GGALoop(GGAbuffer.mem, 1, 0, gga, g))

\* decodeRMC: the switch (field_num) applied to one token.
RMCField(field_num, mem, tok, rmc, g) ==
    CASE field_num = 1 ->
            [rmc EXCEPT !.date.day = U8(TwoDigits(mem, tok, 0, g)),
                        !.date.month = U8(TwoDigits(mem, tok, 2, g)),
                        !.date.year = U16(2000 + TwoDigits(mem, tok, 4, g))]
      [] field_num = 2 ->
            [rmc EXCEPT !.is_data_valid =
                IF mem[tok] = Ascii["A"] THEN 1 ELSE 0]
      [] field_num = 3 -> [rmc EXCEPT !.speed_knots = atof(StrAt(mem, tok))]
      [] field_num = 4 -> [rmc EXCEPT !.course = atof(StrAt(mem, tok))]
      [] OTHER -> rmc

RECURSIVE RMCLoop(_, _, _, _, _)
\* decodeRMC: one turn of the loop, t being what strtok returned.
RMCToken(t, field_num, rmc, g) ==
    IF t.token = 0
    THEN [mem |-> t.mem, rmc |-> rmc, fields |-> field_num, save |-> t.save]
    ELSE RMCLoop(t.mem, t.save, field_num + 1,
                 RMCField(field_num, t.mem, t.token, rmc, g), g)

RMCLoop(mem, pos, field_num, rmc, g) ==
    RMCToken(Strtok(mem, pos), field_num, rmc, g)

\* decodeRMC: return 0 after the loop ended with r.
RMCDone(r) == [ret |-> 0, buf |-> Buffer(r.mem), rec |-> r.rmc]

\* int decodeRMC(char *RMCbuffer, RMCSTRUCT *rmc)
decodeRMC(RMCbuffer, recnull, rmc, g) ==
    IF RMCbuffer.null \/ recnull
    THEN [ret |-> -1, buf |-> RMCbuffer, rec |-> rmc]
    ELSE RMCDone(RMCLoop(RMCbuffer.mem, 1, 0, rmc, g))

(***************************************************************************)
(* atof_fixed: the string is the characters before the terminator, p the   *)
(* index str points at; past the last character *str is the terminator.   *)
(* result is an int32_t: the strings and scales below keep it in range.    *)
(***************************************************************************)
FixedAt(str, p) == IF p <= Len(str) THEN str[p] ELSE 0

\* Variant of the first loop that skips nothing.
FixedSkip_none(str, p) == p

\* atof_fixed 45-48: while (*str == ' ') str++;
RECURSIVE FixedSkip(_, _)
FixedSkip(str, p) ==
    IF FixedAt(str, p) = Ascii[" "] THEN FixedSkip(str, p + 1) ELSE p

\* atof_fixed 51-52: the sign, and str after the sign character.
FixedSign(str, p) == IF FixedAt(str, p) = Ascii["-"] THEN -1 ELSE 1
FixedAfterSign(str, p) ==
    IF FixedAt(str, p) \in {Ascii["-"], Ascii["+"]} THEN p + 1 ELSE p

\* atof_fixed 55-59: the digits of the integer part.
RECURSIVE FixedInteger(_, _, _)
FixedInteger(str, p, result) ==
    IF IsDigit(FixedAt(str, p))
    THEN FixedInteger(str, p + 1, result * 10 + (FixedAt(str, p) - Ascii["0"]))
    ELSE [p |-> p, result |-> result]

\* atof_fixed 66-71: the digits after the point, while scale_factor > 1.
RECURSIVE FixedFraction(_, _, _, _)
FixedFraction(str, p, result, scale_factor) ==
    IF IsDigit(FixedAt(str, p)) /\ scale_factor > 1
    THEN FixedFraction(str, p + 1,
                       result * 10 + (FixedAt(str, p) - Ascii["0"]),
                       TruncDiv(scale_factor, 10))
    ELSE [result |-> result, scale_factor |-> scale_factor]

\* atof_fixed 62-72: if (*str == '.'), after the integer part r.
FixedPoint(str, r, scale) ==
    IF FixedAt(str, r.p) = Ascii["."]
    THEN FixedFraction(str, r.p + 1, r.result, scale)
    ELSE [result |-> r.result, scale_factor |-> scale]

\* Variant of the last loop that does not multiply.
FixedPad_none(result, scale_factor) == result

\* atof_fixed 75-79: while (scale_factor > 1) { result *= 10; ... }
RECURSIVE FixedPad(_, _)
FixedPad(result, scale_factor) ==
    IF scale_factor > 1
    THEN FixedPad(result * 10, TruncDiv(scale_factor, 10))
    ELSE result

\* atof_fixed 51-81, str pointing at index p after the leading spaces.
FixedScaled(f) == FixedPad(f.result, f.scale_factor)
FixedFrom(str, p, scale) ==
    FixedScaled(FixedPoint(str, FixedInteger(str, FixedAfterSign(str, p), 0),
                           scale))
        * FixedSign(str, p)

\* int32_t atof_fixed(const char *str, int scale)
atof_fixed(str, scale) == FixedFrom(str, FixedSkip(str, 1), scale)

\* The arguments atof_fixed is called with: spaces, a sign, digits, a point
\* and digits, each of them there or not, and strings without a digit.
FixedSpaces == {Str(<< >>), Str(<<" ">>), Str(<<" ", " ">>)}
FixedSigns == {Str(<< >>), Str(<<"-">>), Str(<<"+">>)}
FixedIntegers == {Str(<< >>), Str(<<"0">>), Str(<<"7">>), Str(<<"1", "2", "3", "4">>)}
FixedFractions ==
    {Str(<< >>), Str(<<".">>), Str(<<".", "5">>), Str(<<".", "2", "3", "9">>),
     Str(<<".", "5", "6", "7", "8">>)}
FixedLetters == {Str(<<"N">>), Str(<<" ", "W">>), Str(<<"-", "E">>), Str(<<"M", ".">>)}
FixedStrings ==
    {sp \o sg \o ip \o fr : sp \in FixedSpaces, sg \in FixedSigns,
                            ip \in FixedIntegers, fr \in FixedFractions}
        \cup FixedLetters
FixedScales == {-10, 0, 1, 7, 10, 100, 1000, 1000000}

FixedInit ==
    /\ rx_buffer = EmptyRing
    /\ tx_buffer = EmptyRing
    /\ flags = {}
    /\ it = {}
    /\ pc = "start"
    /\ c = 0
    /\ i = 0
    /\ ret = -1
    /\ rxOffered = << >>
    /\ rxMixed = FALSE
    /\ rxAccepted = << >>
    /\ rxReturned = << >>
    /\ rdPreempted = FALSE
    /\ txWaited = FALSE
    /\ txWritten = << >>
    /\ txDrained = << >>
    /\ sendstr = NoSend
    /\ avail = NoAvail
    /\ \E str \in FixedStrings, scale \in FixedScales :
          nmea = [last |-> "none", str |-> str, scale |-> scale, result |-> 0]

\* A call atof_fixed(str, scale).
Call_atof_fixed ==
    /\ nmea.last = "none"
    /\ nmea' = [nmea EXCEPT !.last = "atof_fixed",
                            !.result = atof_fixed(nmea.str, nmea.scale)]
    /\ UNCHANGED <<rx_buffer, tx_buffer, flags, it, pc, c, i, ret, hist, sendstr,
                   avail>>

FixedNext == Call_atof_fixed

\* The application converting one string.
FixedSpec == FixedInit /\ [][FixedNext]_vars

(***************************************************************************)
(* Sentences the application passes to the decoder.                        *)
(***************************************************************************)
\* The sentence of the test program (part_000): every field up to the unit is present.
\* $GPGGA,123456.00,3749.1234,N,12225.5678,W,1,08,1.0,15.6,M,,,*47
GGA_Sample ==
    CStr(<<"$", "G", "P", "G", "G", "A", ",", "1", "2", "3", "4", "5", "6", ".",
        "0", "0", ",", "3", "7", "4", "9", ".", "1", "2", "3", "4", ",", "N",
        ",", "1", "2", "2", "2", "5", ".", "5", "6", "7", "8", ",", "W", ",",
        "1", ",", "0", "8", ",", "1", ".", "0", ",", "1", "5", ".", "6", ",",
        "M", ",", ",", ",", "*", "4", "7">>)

\* A fix in the southern and eastern hemispheres.
\* $GPGGA,235959,3352.5000,S,15112.7500,E,1,05,0.9,8.25,M
GGA_SouthEast ==
    CStr(<<"$", "G", "P", "G", "G", "A", ",", "2", "3", "5", "9", "5", "9", ",",
        "3", "3", "5", "2", ".", "5", "0", "0", "0", ",", "S", ",", "1", "5",
        "1", "1", "2", ".", "7", "5", "0", "0", ",", "E", ",", "1", ",", "0",
        "5", ",", "0", ".", "9", ",", "8", ".", "2", "5", ",", "M">>)

\* A fix whose time field is empty.
\* $GPGGA,,3749.1234,N,12225.5678,W,1,08,1.0,15.6,M
GGA_NoTime ==
    CStr(<<"$", "G", "P", "G", "G", "A", ",", ",", "3", "7", "4", "9", ".", "1",
        "2", "3", "4", ",", "N", ",", "1", "2", "2", "2", "5", ".", "5", "6",
        "7", "8", ",", "W", ",", "1", ",", "0", "8", ",", "1", ".", "0", ",",
        "1", "5", ".", "6", ",", "M">>)

\* What a receiver without a fix sends: the fields before the fix validity are empty.
\* $GPGGA,,,,,,0,00,99.99,,,,,,*48
GGA_NoFix ==
    CStr(<<"$", "G", "P", "G", "G", "A", ",", ",", ",", ",", ",", ",", "0", ",",
        "0", "0", ",", "9", "9", ".", "9", "9", ",", ",", ",", ",", ",", ",",
        "*", "4", "8">>)

\* A sentence that ends after the N/S indicator.
\* $GPGGA,123456,3749.1234,N
GGA_Short ==
    CStr(<<"$", "G", "P", "G", "G", "A", ",", "1", "2", "3", "4", "5", "6", ",",
        "3", "7", "4", "9", ".", "1", "2", "3", "4", ",", "N">>)

\* A sentence damaged on the line: the time has four characters and the
\* hemisphere fields hold other letters.
\* $GPGGA,1234,3749.1234,M,12225.5678,A
GGA_Garbled ==
    CStr(<<"$", "G", "P", "G", "G", "A", ",", "1", "2", "3", "4", ",",
        "3", "7", "4", "9", ".", "1", "2", "3", "4", ",", "M", ",", "1", "2",
        "2", "2", "5", ".", "5", "6", "7", "8", ",", "A">>)

\* A sentence that ends inside the time field.
\* $GPGGA,12
GGA_ShortTime ==
    CStr(<<"$", "G", "P", "G", "G", "A", ",", "1", "2">>)

\* The sentence of the test program (part_000).
\* $GPRMC,123456.00,A,3749.1234,N,12225.5678,W,0.5,90.0,101221,,,A*68
RMC_Sample ==
    CStr(<<"$", "G", "P", "R", "M", "C", ",", "1", "2", "3", "4", "5", "6", ".",
        "0", "0", ",", "A", ",", "3", "7", "4", "9", ".", "1", "2", "3", "4",
        ",", "N", ",", "1", "2", "2", "2", "5", ".", "5", "6", "7", "8", ",",
        "W", ",", "0", ".", "5", ",", "9", "0", ".", "0", ",", "1", "0", "1",
        "2", "2", "1", ",", ",", ",", "A", "*", "6", "8">>)

\* Date, validity, speed and course in the fields decodeRMC reads.
\* $GPRMC,101221,A,0.5,90.0
RMC_Plain ==
    CStr(<<"$", "G", "P", "R", "M", "C", ",", "1", "0", "1", "2", "2", "1", ",",
        "A", ",", "0", ".", "5", ",", "9", "0", ".", "0">>)

\* A sentence that ends after the validity.
\* $GPRMC,101221,V
RMC_Short ==
    CStr(<<"$", "G", "P", "R", "M", "C", ",", "1", "0", "1", "2", "2", "1", ",",
        "V">>)

\* A sentence whose date field has four characters.
\* $GPRMC,1012,A
RMC_ShortDate ==
    CStr(<<"$", "G", "P", "R", "M", "C", ",", "1", "0", "1", "2", ",", "A">>)

\* A sentence whose date field is empty.
\* $GPRMC,,A,0.5,90.0
RMC_NoDate ==
    CStr(<<"$", "G", "P", "R", "M", "C", ",", ",", "A", ",", "0", ".", "5", ",",
        "9", "0", ".", "0">>)

\* The empty sentence: the array holds the terminator only.
EmptySentence == <<0>>

GGASentences == {GGA_Sample, GGA_SouthEast, GGA_NoTime, GGA_NoFix, GGA_Short,
                 GGA_ShortTime, GGA_Garbled, EmptySentence}
RMCSentences == {RMC_Sample, RMC_Plain, RMC_Short, RMC_ShortDate, RMC_NoDate,
                 EmptySentence}
GGABuffers == {NullBuffer} \cup {Buffer(m) : m \in GGASentences}
RMCBuffers == {NullBuffer} \cup {Buffer(m) : m \in RMCSentences}

\* Values a read past the end of the array may yield.
OobBytes == {0, Ascii["9"]}
(***************************************************************************)
(* The decoder as a state machine: the application owns two sentence       *)
(* arrays and one GPSSTRUCT and calls the public functions on them.        *)
(* nmea.pre holds the arguments as they were before the last call.         *)
(***************************************************************************)
Args == [gga_buf |-> nmea.gga_buf, rmc_buf |-> nmea.rmc_buf, gps |-> nmea.gps]

\* nmea.first remembers the first decodeGGA into a zero-initialised record:
\* the array it was given, the value it returned and the record it left.
NoFirst == [done |-> FALSE, ret |-> 0, rec |-> ZeroGGA, buf |-> NullBuffer]
FirstGGA(r, recnull) ==
    IF nmea.first.done \/ recnull \/ nmea.gps.ggastruct # ZeroGGA
    THEN nmea.first
    ELSE [done |-> TRUE, ret |-> r.ret, rec |-> r.rec, buf |-> nmea.gga_buf]

NmeaInit ==
    /\ rx_buffer = EmptyRing
    /\ tx_buffer = EmptyRing
    /\ flags = {}
    /\ it = {}
    /\ pc = "start"
    /\ c = 0
    /\ i = 0
    /\ ret = -1
    /\ rxOffered = << >>
    /\ rxMixed = FALSE
    /\ rxAccepted = << >>
    /\ rxReturned = << >>
    /\ rdPreempted = FALSE
    /\ txWaited = FALSE
    /\ txWritten = << >>
    /\ txDrained = << >>
    /\ sendstr = NoSend
    /\ avail = NoAvail
    /\ \E gb \in GGABuffers, rb \in RMCBuffers, rec \in {ZeroGPS, StaleGPS} :
          nmea = [last |-> "none", ret |-> 0, recnull |-> FALSE,
                  gga_buf |-> gb, rmc_buf |-> rb, gps |-> rec,
                  inited |-> FALSE, first |-> NoFirst,
                  pre |-> [gga_buf |-> gb, rmc_buf |-> rb, gps |-> rec]]

\* What the decoder never touches.
transport ==
    <<rx_buffer, tx_buffer, flags, it, pc, c, i, ret, hist, sendstr, avail>>

\* void initGPS(GPSSTRUCT *gps)
initGPS ==
    /\ nmea' = [nmea EXCEPT !.last = "initGPS", !.ret = 0, !.recnull = FALSE,
                            !.gps = ZeroGPS, !.inited = TRUE, !.pre = Args]
    /\ UNCHANGED transport

\* A call decodeGGA(gga_buf, &gps.ggastruct), or decodeGGA(gga_buf, NULL).
CallDecodeGGA(recnull, g) ==
    LET r == decodeGGA(nmea.gga_buf, recnull, nmea.gps.ggastruct, g)
    IN  /\ nmea' = [nmea EXCEPT !.last = "decodeGGA", !.ret = r.ret,
                                !.recnull = recnull,
                                !.gga_buf = r.buf, !.gps.ggastruct = r.rec,
                                !.first = FirstGGA(r, recnull),
                                !.pre = Args]
        /\ UNCHANGED transport

\* A call decodeRMC(rmc_buf, &gps.rmcstruct), or decodeRMC(rmc_buf, NULL).
CallDecodeRMC(recnull, g) ==
    LET r == decodeRMC(nmea.rmc_buf, recnull, nmea.gps.rmcstruct, g)
    IN  /\ nmea' = [nmea EXCEPT !.last = "decodeRMC", !.ret = r.ret,
                                !.recnull = recnull,
                                !.rmc_buf = r.buf, !.gps.rmcstruct = r.rec,
                                !.pre = Args]
        /\ UNCHANGED transport

\* Variant of populateGPSData that runs both decodes before it looks at
\* either return value.
populateGPSData_both(g) ==
    LET a == decodeGGA(nmea.gga_buf, FALSE, nmea.gps.ggastruct, g)
        b == decodeRMC(nmea.rmc_buf, FALSE, nmea.gps.rmcstruct, g)
    IN  /\ nmea' = [nmea EXCEPT !.last = "populateGPSData",
                                !.ret = IF a.ret # 0 \/ b.ret # 0
                                        THEN -1 ELSE 0,
                                !.recnull = FALSE,
                                !.gga_buf = a.buf, !.gps.ggastruct = a.rec,
                                !.rmc_buf = b.buf, !.gps.rmcstruct = b.rec,
                                !.first = FirstGGA(a, FALSE),
                                !.pre = Args]
        /\ UNCHANGED transport

\* int populateGPSData(char *ggaSentence, char *rmcSentence, GPSSTRUCT *gps)
populateGPSData(g) ==
    LET a == decodeGGA(nmea.gga_buf, FALSE, nmea.gps.ggastruct, g)
        b == decodeRMC(nmea.rmc_buf, FALSE, nmea.gps.rmcstruct, g)
    IN  /\ IF a.ret # 0
           THEN nmea' = [nmea EXCEPT !.last = "populateGPSData", !.ret = -1,
                                     !.recnull = FALSE,
                                     !.gga_buf = a.buf, !.gps.ggastruct = a.rec,
                                     !.first = FirstGGA(a, FALSE),
                                     !.pre = Args]
           ELSE nmea' = [nmea EXCEPT !.last = "populateGPSData",
                                     !.ret = IF b.ret # 0 THEN -1 ELSE 0,
                                     !.recnull = FALSE,
                                     !.gga_buf = a.buf, !.gps.ggastruct = a.rec,
                                     !.rmc_buf = b.buf, !.gps.rmcstruct = b.rec,
                                     !.first = FirstGGA(a, FALSE),
                                     !.pre = Args]
        /\ UNCHANGED transport

NmeaNext ==
    \/ initGPS
    \/ \E recnull \in BOOLEAN, g \in OobBytes : CallDecodeGGA(recnull, g)
    \/ \E recnull \in BOOLEAN, g \in OobBytes : CallDecodeRMC(recnull, g)
    \/ \E g \in OobBytes : populateGPSData(g)

\* The application decoding the sentences it holds.
NmeaSpec == NmeaInit /\ [][NmeaNext]_vars

(***************************************************************************)
(* decodeGGA statement by statement, with a complete decodeRMC that may    *)
(* run between two of its calls of strtok.  strtok keeps one cursor for    *)
(* the whole program: nmea.save names the array and the index at which     *)
(* strtok(NULL, ..) continues.  nmea.token is the local token of           *)
(* decodeGGA, an index into the array nmea.token.buf, 0 for NULL.          *)
(***************************************************************************)
NoToken == [buf |-> "gga", idx |-> 0]

StepInit ==
    /\ rx_buffer = EmptyRing
    /\ tx_buffer = EmptyRing
    /\ flags = {}
    /\ it = {}
    /\ pc = "start"
    /\ c = 0
    /\ i = 0
    /\ ret = -1
    /\ rxOffered = << >>
    /\ rxMixed = FALSE
    /\ rxAccepted = << >>
    /\ rxReturned = << >>
    /\ rdPreempted = FALSE
    /\ txWaited = FALSE
    /\ txWritten = << >>
    /\ txDrained = << >>
    /\ sendstr = NoSend
    /\ avail = NoAvail
    /\ \E gm \in GGASentences, rb \in RMCBuffers, rec \in {ZeroGPS, StaleGPS},
          g \in OobBytes :
          nmea = [phase |-> "idle", ret |-> 0, g |-> g,
                  mem |-> [gga |-> gm, rmc |-> rb.mem], rmcnull |-> rb.null,
                  save |-> [buf |-> "gga", pos |-> 1],
                  token |-> NoToken, field_num |-> 0, gps |-> rec,
                  preempted |-> FALSE,
                  pre |-> [gga_buf |-> Buffer(gm), rmc_buf |-> rb, gps |-> rec]]

\* decodeGGA 131-138: both pointers are there; token = strtok(GGAbuffer, ",").
decodeGGA_first ==
    /\ nmea.phase = "idle"
    /\ LET t == Strtok(nmea.mem.gga, 1)
       IN  nmea' = [nmea EXCEPT !.phase = "loop", !.field_num = 0,
                                !.mem.gga = t.mem,
                                !.save = [buf |-> "gga", pos |-> t.save],
                                !.token = [buf |-> "gga", idx |-> t.token]]
    /\ UNCHANGED transport

\* decodeGGA 140-175: one turn of while (token != NULL): the switch on the
\* token, token = strtok(NULL, ","), field_num++.  strtok continues where
\* its cursor is, whichever call left it there.
decodeGGA_turn ==
    /\ nmea.phase = "loop"
    /\ nmea.token.idx # 0
    /\ LET t == Strtok(nmea.mem[nmea.save.buf], nmea.save.pos)
       IN  nmea' = [nmea EXCEPT
                       !.gps.ggastruct =
                           GGAField(nmea.field_num, nmea.mem[nmea.token.buf],
                                    nmea.token.idx, nmea.gps.ggastruct, nmea.g),
                       !.mem[nmea.save.buf] = t.mem,
                       !.save.pos = t.save,
                       !.token = [buf |-> nmea.save.buf, idx |-> t.token],
                       !.field_num = nmea.field_num + 1]
    /\ UNCHANGED transport

\* decodeGGA 140, 177: token is NULL, return 0.
decodeGGA_return ==
    /\ nmea.phase = "loop"
    /\ nmea.token.idx = 0
    /\ nmea' = [nmea EXCEPT !.phase = "done", !.ret = 0]
    /\ UNCHANGED transport

\* A complete decodeRMC(rmc_buf, &gps.rmcstruct) between two calls of strtok
\* of the decodeGGA in progress.  With a sentence it leaves the cursor of
\* strtok in its own array; without one it returns before it calls strtok.
PreemptDecodeRMC ==
    /\ nmea.phase = "loop"
    /\ nmea.token.idx # 0
    /\ ~nmea.preempted
    /\ IF nmea.rmcnull
       THEN nmea' = [nmea EXCEPT !.preempted = TRUE]
       ELSE LET r == RMCLoop(nmea.mem.rmc, 1, 0, nmea.gps.rmcstruct, nmea.g)
            IN  nmea' = [nmea EXCEPT !.preempted = TRUE,
                                     !.mem.rmc = r.mem,
                                     !.gps.rmcstruct = r.rmc,
                                     !.save = [buf |-> "rmc", pos |-> r.save]]
    /\ UNCHANGED transport

StepNext ==
    \/ decodeGGA_first
    \/ decodeGGA_turn
    \/ decodeGGA_return
    \/ PreemptDecodeRMC

\* One decodeGGA, preempted at most once by a decodeRMC.
StepSpec == StepInit /\ [][StepNext]_vars

(***************************************************************************)
(* Quantities the decoder properties speak about.                          *)
(***************************************************************************)
Abs(x) == IF x < 0 THEN -x ELSE x

\* The sentence an array holds: its characters before the terminator.
Sentence(buf) == StrAt(buf.mem, 1)

\* Index of the j-th comma of the sentence s; 0 before the first field and
\* Len(s) + 1 after the last.
CommaIndex(s, j) ==
    IF j = 0 THEN 0
    ELSE IF j > Cardinality({k \in 1 .. Len(s) : s[k] = Ascii[","]})
         THEN Len(s) + 1
         ELSE CHOOSE p \in 1 .. Len(s) :
                 /\ s[p] = Ascii[","]
                 /\ Cardinality({k \in 1 .. p : s[k] = Ascii[","]}) = j

\* The fields of the sentence s: field k, counted from 0, is the text between
\* the k-th and the (k + 1)-th comma, empty when the two are adjacent.
SplitFields(s) ==
    [k \in 1 .. (Cardinality({x \in 1 .. Len(s) : s[x] = Ascii[","]}) + 1) |->
        SubSeq(s, CommaIndex(s, k - 1) + 1, CommaIndex(s, k) - 1)]

\* Field k (from 0) of the fields F is there, and is there with text in it.
Present(F, k) == k + 1 <= Len(F)
Filled(F, k) == Present(F, k) /\ F[k + 1] # << >>
\* Every field up to field k is there with text in it.
FilledUpTo(F, k) == \A j \in 0 .. k : Filled(F, j)

\* The tokens decodeGGA and decodeRMC get from strtok for the array mem, the
\* cursor being at index pos.
RECURSIVE TokensFrom(_, _)
TokensAfter(t) ==
    IF t.token = 0 THEN << >>
    ELSE <<StrAt(t.mem, t.token)>> \o TokensFrom(t.mem, t.save)
TokensFrom(mem, pos) == TokensAfter(Strtok(mem, pos))

\* The last call was a decoding with no null pointer among its arguments.
DecodedGGA ==
    nmea.last = "decodeGGA" /\ ~nmea.pre.gga_buf.null /\ ~nmea.recnull
DecodedRMC ==
    nmea.last = "decodeRMC" /\ ~nmea.pre.rmc_buf.null /\ ~nmea.recnull

\* The fields of the sentences the last call was given.
GGAFields == SplitFields(Sentence(nmea.pre.gga_buf))
RMCFields == SplitFields(Sentence(nmea.pre.rmc_buf))

\* The records after and before the last call.
ggastruct == nmea.gps.ggastruct
rmcstruct == nmea.gps.rmcstruct
pre_ggastruct == nmea.pre.gps.ggastruct
pre_rmcstruct == nmea.pre.gps.rmcstruct

(***************************************************************************)
(* Properties of the decoder.                                              *)
(***************************************************************************)
\* C13: decodeGGA returns -1 and leaves the record unchanged when the
\* sentence is empty, as it does when the sentence pointer or the record
\* pointer is null.
C13_EmptySentenceFails ==
    (nmea.last = "decodeGGA"
        /\ (nmea.pre.gga_buf.null \/ nmea.recnull
            \/ Sentence(nmea.pre.gga_buf) = << >>)) =>
        /\ nmea.ret = -1
        /\ nmea.gps = nmea.pre.gps

\* C14: the fields decodeGGA and decodeRMC get for a sentence that is not
\* empty are, left to right, the texts between its commas, an empty text for
\* every two adjacent commas.
C14_FieldsAreTextBetweenCommas ==
    /\ (DecodedGGA /\ Sentence(nmea.pre.gga_buf) # << >>) =>
          TokensFrom(nmea.pre.gga_buf.mem, 1) = GGAFields
    /\ (DecodedRMC /\ Sentence(nmea.pre.rmc_buf) # << >>) =>
          TokensFrom(nmea.pre.rmc_buf.mem, 1) = RMCFields

\* The two-digit number at characters k + 1, k + 2 of the text f.
Pair(f, k) == (f[k + 1] - Ascii["0"]) * 10 + (f[k + 2] - Ascii["0"])

\* C15: after decodeGGA each of these record fields holds what the field of
\* its index holds, whenever that field has text in it: field 1 the time
\* (six digits), 3 the N/S indicator, 5 the E/W indicator, 6 the fix
\* validity, 7 the satellite count, 10 the altitude unit; and the sentence of
\* the test program gives success, 12:34:56, 'N', 'W', 1, 8 and 'M'.
C15_FieldIndexTable ==
    DecodedGGA =>
        /\ nmea.ret = 0
        /\ (Present(GGAFields, 1) /\ Len(GGAFields[2]) >= 6) =>
              /\ ggastruct.time.hour = Pair(GGAFields[2], 0)
              /\ ggastruct.time.min = Pair(GGAFields[2], 2)
              /\ ggastruct.time.sec = Pair(GGAFields[2], 4)
        /\ Filled(GGAFields, 3) => ggastruct.location.NS = GGAFields[4][1]
        /\ Filled(GGAFields, 5) => ggastruct.location.EW = GGAFields[6][1]
        /\ Filled(GGAFields, 6) => ggastruct.is_fix_valid = atoi(GGAFields[7])
        /\ Filled(GGAFields, 7) => ggastruct.num_of_sat = atoi(GGAFields[8])
        /\ Filled(GGAFields, 10) => ggastruct.altitude.unit = GGAFields[11][1]
        /\ nmea.pre.gga_buf.mem = GGA_Sample =>
              /\ ggastruct.time = [hour |-> 12, min |-> 34, sec |-> 56]
              /\ ggastruct.location.NS = Ascii["N"]
              /\ ggastruct.location.EW = Ascii["W"]
              /\ ggastruct.is_fix_valid = 1
              /\ ggastruct.num_of_sat = 8
              /\ ggastruct.altitude.unit = Ascii["M"]

\* C16: after decodeGGA on a zeroed record, of a sentence with no empty
\* field up to field 5, the latitude is negative when field 3 is 'S' and not
\* negative when it is 'N', and the longitude is negative when field 5 is
\* 'W' and not negative when it is 'E'.
C16_SignFollowsHemisphere ==
    (DecodedGGA /\ pre_ggastruct = ZeroGGA /\ FilledUpTo(GGAFields, 5)) =>
        /\ GGAFields[4] = Str(<<"S">>) => ggastruct.location.latitude < 0
        /\ GGAFields[4] = Str(<<"N">>) => ggastruct.location.latitude >= 0
        /\ GGAFields[6] = Str(<<"W">>) => ggastruct.location.longitude < 0
        /\ GGAFields[6] = Str(<<"E">>) => ggastruct.location.longitude >= 0

\* The scale of LOCATION.latitude and LOCATION.longitude.
E7 == 10000000

\* C17: after decodeGGA of a sentence with no empty field before them, the
\* magnitude of latitude and of longitude is the decimal-degree value of
\* field 2 and of field 4 times 10^7: for
\* "3749.1234" the degrees 37 + 49.1234 / 60, not the whole number 37.
C17_DegreesTimesE7 ==
    DecodedGGA =>
        /\ FilledUpTo(GGAFields, 2) =>
              Abs(ggastruct.location.latitude) =
                  parse_coordinate(GGAFields[3], 0) * (E7 \div FloatOne)
        /\ FilledUpTo(GGAFields, 4) =>
              Abs(ggastruct.location.longitude) =
                  parse_coordinate(GGAFields[5], 0) * (E7 \div FloatOne)

\* The scale of ALTITUDE.altitude: millimetres.
AltitudeScale == 1000

\* C18: after decodeGGA of a sentence with no empty field up to field 9,
\* altitude.altitude is the value of field 9 times the scale, its fractional digits kept: 15600 for "15.6", not 15.
C18_AltitudeKeepsFraction ==
    (DecodedGGA /\ FilledUpTo(GGAFields, 9)) =>
        ggastruct.altitude.altitude * FloatOne = atof(GGAFields[10]) * AltitudeScale

\* C19: decoding a sentence with fewer fields than the highest index the
\* decoder reads returns 0, and every record field whose field index the
\* sentence does not have holds the value it had before the call.
C19_AbsentFieldsKeepValue ==
    /\ DecodedGGA =>
          /\ nmea.ret = 0
          /\ ~Present(GGAFields, 1) => ggastruct.time = pre_ggastruct.time
          /\ ~Present(GGAFields, 2) =>
                ggastruct.location.latitude = pre_ggastruct.location.latitude
          /\ ~Present(GGAFields, 3) => ggastruct.location.NS = pre_ggastruct.location.NS
          /\ ~Present(GGAFields, 4) =>
                ggastruct.location.longitude = pre_ggastruct.location.longitude
          /\ ~Present(GGAFields, 5) => ggastruct.location.EW = pre_ggastruct.location.EW
          /\ ~Present(GGAFields, 6) => ggastruct.is_fix_valid = pre_ggastruct.is_fix_valid
          /\ ~Present(GGAFields, 7) => ggastruct.num_of_sat = pre_ggastruct.num_of_sat
          /\ ~Present(GGAFields, 9) =>
                ggastruct.altitude.altitude = pre_ggastruct.altitude.altitude
          /\ ~Present(GGAFields, 10) =>
                ggastruct.altitude.unit = pre_ggastruct.altitude.unit
    /\ DecodedRMC =>
          /\ nmea.ret = 0
          /\ ~Present(RMCFields, 1) => rmcstruct.date = pre_rmcstruct.date
          /\ ~Present(RMCFields, 2) =>
                rmcstruct.is_data_valid = pre_rmcstruct.is_data_valid
          /\ ~Present(RMCFields, 3) => rmcstruct.speed_knots = pre_rmcstruct.speed_knots
          /\ ~Present(RMCFields, 4) => rmcstruct.course = pre_rmcstruct.course

\* decodeGGA has decoded a sentence that ends after the N/S indicator into a
\* record that held an earlier fix: the time is the sentence's, the
\* longitude, the altitude and the satellite count are the earlier ones.
C19_Witness ==
    /\ DecodedGGA
    /\ nmea.pre.gga_buf.mem = GGA_Short
    /\ pre_ggastruct = StaleGPS.ggastruct
    /\ nmea.ret = 0
    /\ ggastruct.time = [hour |-> 12, min |-> 34, sec |-> 56]
    /\ ggastruct.location.longitude = -70
    /\ ggastruct.altitude.altitude = 520
    /\ ggastruct.num_of_sat = 11

\* C20: populateGPSData with a well-formed GGA sentence and an empty RMC
\* sentence returns -1, and the GGA half of the record holds the values
\* decoded from the GGA sentence.
C20_EmptyRMCFails ==
    (nmea.last = "populateGPSData"
        /\ nmea.pre.gga_buf \in {Buffer(GGA_Sample), Buffer(GGA_SouthEast)}
        /\ nmea.pre.rmc_buf = Buffer(EmptySentence)) =>
        /\ nmea.ret = -1
        /\ ggastruct = decodeGGA(nmea.pre.gga_buf, FALSE, pre_ggastruct, 0).rec

\* The values the two decodes return when populateGPSData runs them on the
\* arguments of the last call.
C21_GGAReturn == decodeGGA(nmea.pre.gga_buf, FALSE, pre_ggastruct, 0).ret
C21_RMCReturn == decodeRMC(nmea.pre.rmc_buf, FALSE, pre_rmcstruct, 0).ret

\* C21: populateGPSData decodes GGA first and RMC second and stops at the
\* first failure: when the GGA decode fails it returns -1 and the RMC
\* sentence and the RMC half of the record are what they were before the
\* call; when the GGA decode succeeds the GGA sentence has been tokenized
\* and the RMC decode has run; it returns 0 exactly when both decodes
\* return 0.
C21_StopsAtFirstFailure ==
    nmea.last = "populateGPSData" =>
        /\ C21_GGAReturn # 0 =>
              /\ nmea.ret = -1
              /\ nmea.rmc_buf = nmea.pre.rmc_buf
              /\ rmcstruct = pre_rmcstruct
        /\ C21_GGAReturn = 0 =>
              /\ \E g \in OobBytes :
                    /\ nmea.gga_buf =
                          decodeGGA(nmea.pre.gga_buf, FALSE, pre_ggastruct, g).buf
                    /\ ggastruct =
                          decodeGGA(nmea.pre.gga_buf, FALSE, pre_ggastruct, g).rec
              /\ \E g \in OobBytes :
                    /\ nmea.rmc_buf =
                          decodeRMC(nmea.pre.rmc_buf, FALSE, pre_rmcstruct, g).buf
                    /\ rmcstruct =
                          decodeRMC(nmea.pre.rmc_buf, FALSE, pre_rmcstruct, g).rec
        /\ nmea.ret = 0 <=> (C21_GGAReturn = 0 /\ C21_RMCReturn = 0)
        /\ nmea.ret \in {0, -1}

\* populateGPSData was called without a GGA sentence and with the sample RMC
\* sentence: it returned -1 and the RMC sentence is still untokenized.
C21_Witness ==
    /\ nmea.last = "populateGPSData"
    /\ nmea.pre.gga_buf = NullBuffer
    /\ nmea.pre.rmc_buf = Buffer(RMC_Sample)
    /\ nmea.ret = -1
    /\ nmea.rmc_buf = Buffer(RMC_Sample)
    /\ rmcstruct = pre_rmcstruct

\* The last call ran decodeGGA on a record, directly or in populateGPSData,
\* and the value that decodeGGA returned.
C22_RanDecodeGGA ==
    \/ nmea.last = "decodeGGA" /\ ~nmea.recnull
    \/ nmea.last = "populateGPSData"
C22_Return ==
    IF nmea.last = "decodeGGA" THEN nmea.ret
    ELSE decodeGGA(nmea.pre.gga_buf, FALSE, pre_ggastruct, 0).ret

\* C22: decodeGGA called again on a sentence array it has already decoded,
\* into a record that is zero-initialised as the record of the first call
\* was, returns the value and leaves the record of the first call.  Stated
\* for sentences whose time field has its six characters, so that no read
\* leaves the array.
C22_DecodeTwiceSame ==
    (/\ C22_RanDecodeGGA
     /\ nmea.first.done
     /\ pre_ggastruct = ZeroGGA
     /\ FilledUpTo(SplitFields(Sentence(nmea.first.buf)), 1)
     /\ Len(SplitFields(Sentence(nmea.first.buf))[2]) >= 6) =>
        /\ C22_Return = nmea.first.ret
        /\ ggastruct = nmea.first.rec

\* C23: after decodeGGA the characters of the GGA sentence array, and after
\* decodeRMC the characters of the RMC sentence array, are what they were
\* before the call.
C23_SentenceUnchanged ==
    /\ nmea.last = "decodeGGA" => nmea.gga_buf = nmea.pre.gga_buf
    /\ nmea.last = "decodeRMC" => nmea.rmc_buf = nmea.pre.rmc_buf

\* C24: a decodeGGA during which a complete decodeRMC ran between two calls
\* of strtok leaves the GGA record that decodeGGA leaves when it runs alone
\* on the same sentence, and the decodeRMC leaves the RMC record it leaves
\* when it runs alone.
C24_InterruptedDecodeSame ==
    (nmea.phase = "done" /\ nmea.preempted) =>
        /\ nmea.gps.ggastruct =
              decodeGGA(nmea.pre.gga_buf, FALSE, nmea.pre.gps.ggastruct,
                        nmea.g).rec
        /\ nmea.gps.rmcstruct =
              decodeRMC(nmea.pre.rmc_buf, FALSE, nmea.pre.gps.rmcstruct,
                        nmea.g).rec

\* C25: after decodeRMC the record holds what the fields of these indices
\* hold, whenever the field has text in it: field 1, six digits DDMMYY, the
\* day, the month and the year 2000 + YY; field 2 the validity, 1 exactly
\* when its first character is 'A'; field 3 the speed over ground; field 4
\* the course over ground.  A member whose field is not in the sentence
\* keeps its value.
C25_RMCFieldTable ==
    DecodedRMC =>
        /\ nmea.ret = 0
        /\ (Present(RMCFields, 1) /\ Len(RMCFields[2]) >= 6) =>
              /\ rmcstruct.date.day = Pair(RMCFields[2], 0)
              /\ rmcstruct.date.month = Pair(RMCFields[2], 2)
              /\ rmcstruct.date.year = 2000 + Pair(RMCFields[2], 4)
        /\ Filled(RMCFields, 2) =>
              rmcstruct.is_data_valid =
                  IF RMCFields[3][1] = Ascii["A"] THEN 1 ELSE 0
        /\ Filled(RMCFields, 3) => rmcstruct.speed_knots = atof(RMCFields[4])
        /\ Filled(RMCFields, 4) => rmcstruct.course = atof(RMCFields[5])
        /\ ~Present(RMCFields, 1) => rmcstruct.date = pre_rmcstruct.date
        /\ ~Present(RMCFields, 2) =>
              rmcstruct.is_data_valid = pre_rmcstruct.is_data_valid
        /\ ~Present(RMCFields, 3) =>
              rmcstruct.speed_knots = pre_rmcstruct.speed_knots
        /\ ~Present(RMCFields, 4) => rmcstruct.course = pre_rmcstruct.course

\* C26: in every record that initGPS has zeroed and calls of the decoder
\* have written since, the N/S indicator is 'N', 'S' or the null character
\* and the E/W indicator is 'E', 'W' or the null character.
C26_HemisphereValues ==
    nmea.inited =>
        /\ ggastruct.location.NS \in {Ascii["N"], Ascii["S"], 0}
        /\ ggastruct.location.EW \in {Ascii["E"], Ascii["W"], 0}

\* A string read as a decimal number: the characters after the sign, the
\* digits before the point and the digits after it.
C27_Body(s) == Unsigned(s)
C27_Dot(s) ==
    Min({k \in 1 .. Len(C27_Body(s)) + 1 :
            k = Len(C27_Body(s)) + 1 \/ C27_Body(s)[k] = Ascii["."]})
C27_IntDigits(s) == SubSeq(C27_Body(s), 1, C27_Dot(s) - 1)
C27_FracDigits(s) == SubSeq(C27_Body(s), C27_Dot(s) + 1, Len(C27_Body(s)))
\* s is an optionally signed decimal number with an optional fraction.
C27_IsDecimal(s) ==
    /\ \A k \in 1 .. Len(C27_IntDigits(s)) : IsDigit(C27_IntDigits(s)[k])
    /\ \A k \in 1 .. Len(C27_FracDigits(s)) : IsDigit(C27_FracDigits(s)[k])
    /\ Len(C27_IntDigits(s)) + Len(C27_FracDigits(s)) >= 1
\* The number of zeros of a power of ten.
C27_Exponent(scale) == CHOOSE k \in 0 .. 9 : 10 ^ k = scale
\* The first n digits after the point, zeros where the string has none.
C27_FracTo(s, n) ==
    [k \in 1 .. n |-> IF k <= Len(C27_FracDigits(s))
                      THEN C27_FracDigits(s)[k] ELSE Ascii["0"]]
\* The value of s times scale, digits beyond the scale dropped.
C27_Scaled(s, scale) ==
    WithSign(s, DigitsValue(C27_IntDigits(s)) * scale
                    + DigitsValue(C27_FracTo(s, C27_Exponent(scale))))

\* C27: for a decimal string and a power-of-ten scale atof_fixed returns the
\* value times the scale, fractional digits beyond the scale dropped (toward
\* zero) and missing ones read as zeros; ("1234.5678", 1000000) gives
\* 1234567800 and ("-0.5", 100) gives -50.
C27_ScaledTruncated ==
    (nmea.last = "atof_fixed" /\ C27_IsDecimal(nmea.str)
        /\ nmea.scale \in {1, 10, 100, 1000, 1000000}) =>
        /\ nmea.result = C27_Scaled(nmea.str, nmea.scale)
        /\ (nmea.str = Str(<<"1", "2", "3", "4", ".", "5", "6", "7", "8">>)
                /\ nmea.scale = 1000000) => nmea.result = 1234567800
        /\ (nmea.str = Str(<<"-", "0", ".", "5">>) /\ nmea.scale = 100) =>
              nmea.result = -50

\* atof_fixed("-1234.239", 100) returned -123423: the third digit after the
\* point is dropped, toward zero.
C27_Witness ==
    /\ nmea.last = "atof_fixed"
    /\ nmea.str = Str(<<"-", "1", "2", "3", "4", ".", "2", "3", "9">>)
    /\ nmea.scale = 100
    /\ nmea.result = -123423

\* The string has no digit / the string without its leading spaces.
C28_NoDigit(s) == \A k \in 1 .. Len(s) : ~IsDigit(s[k])
C28_Stripped(s) ==
    SubSeq(s, Min({k \in 1 .. Len(s) + 1 :
                      k = Len(s) + 1 \/ s[k] # Ascii[" "]}), Len(s))

\* C28: atof_fixed returns 0 for a string without a digit, whatever the
\* scale, and for a number with leading spaces it returns the scaled value
\* of the number without them.
C28_NoDigitZero ==
    nmea.last = "atof_fixed" =>
        /\ C28_NoDigit(nmea.str) => nmea.result = 0
        /\ (C27_IsDecimal(C28_Stripped(nmea.str))
                /\ nmea.scale \in {1, 10, 100, 1000, 1000000}) =>
              nmea.result = C27_Scaled(C28_Stripped(nmea.str), nmea.scale)

\* atof_fixed("  -.", 7) returned 0: two spaces, a sign and a point, with a
\* scale that is no power of ten.
C28_Witness ==
    /\ nmea.last = "atof_fixed"
    /\ nmea.str = Str(<<" ", " ", "-", ".">>)
    /\ nmea.scale = 7
    /\ nmea.result = 0

\* The array mem of the sentence s when field 1 is read: strtok has put a
\* terminator in the place of the first two commas.
C29_AtRead(mem, s) ==
    [mem EXCEPT ![CommaIndex(s, 1)] = 0, ![CommaIndex(s, 2)] = 0]
\* The character k places after the start of field 1, g past the array.
C29_Char(mem, s, k, g) ==
    IF CommaIndex(s, 1) + 1 + k <= Len(mem)
    THEN C29_AtRead(mem, s)[CommaIndex(s, 1) + 1 + k]
    ELSE g
C29_Pair(mem, s, k, g) ==
    (C29_Char(mem, s, k, g) - Ascii["0"]) * 10
        + (C29_Char(mem, s, k + 1, g) - Ascii["0"])

C29_WitnessPastEnd ==
    /\ DecodedGGA
    /\ nmea.pre.gga_buf.mem = GGA_ShortTime
    /\ pre_ggastruct = ZeroGGA
    /\ nmea.ret = 0
    /\ ggastruct.time.hour = 12
    /\ ggastruct.time.sec = 99

\* The reads the last IsDataAvailable has promised and that have not
\* returned yet: its result less the reads that returned since.
C30_Owed == avail.n - (Len(rxReturned) - avail.base)

\* C30: with the receive interrupt pushing at any point and no reset, the
\* result n of IsDataAvailable lies in 0 .. UART_BUFFER_SIZE - 1, and until
\* n calls of Uart_read have returned a byte the buffer holds at least the
\* bytes still owed: the next Uart_read finds head # tail and does not
\* return -1.
C30_AvailableIsLowerBound ==
    avail.called =>
        /\ avail.n \in 0 .. (UART_BUFFER_SIZE - 1)
        /\ (C30_Owed > 0 /\ pc = "idle") =>
              /\ rx_buffer.head # rx_buffer.tail
              /\ C30_Owed <= RxCount
        /\ (C30_Owed > 0 /\ pc \in ReadPcs) => C30_Owed - 1 <= RxCount

\* IsDataAvailable returned 2, the interrupt pushed a byte after that, and
\* the two calls of Uart_read that followed each returned a byte.
C30_Witness ==
    /\ avail.called
    /\ avail.n = 2
    /\ pc = "idle"
    /\ Len(rxReturned) = avail.base + 2
    /\ Len(rxAccepted) > avail.base + 2
    /\ ret # -1

\* The step is the interrupt handler's: the application stays where it is.
C31_InterruptStep == pc' = pc /\ pc # "start"
\* The step is Ringbuf_init, the only caller of Ringbuf_reset.
C31_InitStep == pc = "start" /\ pc' = "idle"

\* C31 (one step): head of rx_buffer changes only in a step of the receive
\* interrupt (store_char) and tail of rx_buffer only in the last statement
\* of Uart_read; head of tx_buffer changes only in the statement of
\* Uart_write that publishes the byte and tail of tx_buffer only in a step of
\* the transmit interrupt; the one other step that writes indices is
\* Ringbuf_init, which resets rx_buffer alone, to head = tail = 0, and runs
\* while the receive interrupt is not enabled.
C31_WriterStep ==
    /\ rx_buffer'.head # rx_buffer.head =>
          \/ C31_InterruptStep /\ "RXNE" \in it /\ rx_buffer'.tail = rx_buffer.tail
          \/ C31_InitStep
    /\ rx_buffer'.tail # rx_buffer.tail =>
          \/ pc = "rd_adv" /\ pc' = "idle" /\ rx_buffer'.head = rx_buffer.head
          \/ C31_InitStep
    /\ tx_buffer'.head # tx_buffer.head =>
          pc = "wr_head" /\ tx_buffer'.tail = tx_buffer.tail
    /\ tx_buffer'.tail # tx_buffer.tail =>
          C31_InterruptStep /\ "TXE" \in it /\ tx_buffer'.head = tx_buffer.head
    /\ C31_InitStep =>
          /\ "RXNE" \notin it
          /\ rx_buffer'.head = 0 /\ rx_buffer'.tail = 0
          /\ tx_buffer' = tx_buffer
          /\ "RXNE" \in it'
    /\ "RXNE" \in it => pc # "start"

\* C31: every step keeps the single-writer discipline of the indices.
C31_SingleWriter == [][C31_WriterStep]_vars

\* After the reset of Ringbuf_init each of the four indices has been moved
\* by its writer: bytes were pushed and popped on the receive side, written
\* and drained on the transmit side, and a pop is in progress with a byte
\* pushed inside it.
C31_Witness ==
    /\ pc = "rd_adv"
    /\ rdPreempted
    /\ "RXNE" \in it
    /\ rx_buffer.head # 0 /\ rx_buffer.tail # 0
    /\ tx_buffer.head # 0 /\ tx_buffer.tail # 0
    /\ Len(rxReturned) >= 1
    /\ Len(txDrained) >= 1

=============================================================================
